---- MODULE Spec2Model ----
(***************************************************************************)
(* Model of src/main.rs: the Transaction record, the HashMap that main     *)
(* builds and fills, main's control flow, and the serde_json               *)
(* representation of a Transaction given by its derives.                   *)
(*                                                                         *)
(* Three specifications share the state:                                   *)
(*   SpecMain   main() as written, step by step (with weak fairness of     *)
(*              the task's own steps: the runtime drives the single task). *)
(*   SpecOps    the operations main applies to the map (the struct         *)
(*              literal, HashMap::insert, HashMap::len) applied in any     *)
(*              order and any number of times, with the arguments of the   *)
(*              three struct-literal sites of the file.                    *)
(*   SpecSerde  serialization of an arbitrary Transaction and the reading  *)
(*              back of the text by the derived Deserialize.               *)
(***************************************************************************)
EXTENDS Integers, Sequences, FiniteSets, TLC

VARIABLES pc, clock, transactions, tx, logged, result, json, decoded

vars == <<pc, clock, transactions, tx, logged, result, json, decoded>>

(***************************************************************************)
(* Bounds.                                                                 *)
(***************************************************************************)
\* Uuid::new_v4() draws from 2^122 values; the model draws from 1..NumUuids.
NumUuids == 2
\* Utc::now() is abstracted to a counter 0..MaxTime that only grows.
MaxTime == 3

Uuids == 1..NumUuids
Times == 0..MaxTime

(***************************************************************************)
(* Data model.                                                             *)
(***************************************************************************)
TransactionStatus == {"Pending", "Completed", "Failed"}

\* f64 amounts are kept exact as hundredths: 100.50, 50.0 and 75.25.
\* The three struct-literal sites of the file: main, test_transaction_creation,
\* test_transaction_serialization.
Sites ==
    { [amount |-> 10050, currency |-> "USD", status |-> "Pending"],
      [amount |-> 5000,  currency |-> "EUR", status |-> "Pending"],
      [amount |-> 7525,  currency |-> "GBP", status |-> "Completed"] }

MainSite == [amount |-> 10050, currency |-> "USD", status |-> "Pending"]

Amounts == {s.amount : s \in Sites}
Currencies == {s.currency : s \in Sites}

Transaction ==
    [id : Uuids, amount : Amounts, currency : Currencies,
     timestamp : Times, status : TransactionStatus]

\* The struct literal Transaction { id, amount, currency, timestamp, status }.
NewTransaction(id, site, now) ==
    [id |-> id, amount |-> site.amount, currency |-> site.currency,
     timestamp |-> now, status |-> site.status]

\* tx after it has been moved into the map, or before it is built.
NoTx == [none |-> TRUE]
\* No JSON text produced yet.
NoJson == << >>

(***************************************************************************)
(* std::collections::HashMap, as far as main uses it.  A map is a function *)
(* whose domain is the set of keys present.                                *)
(***************************************************************************)
HashMapNew == << >>

\* A mutation of HashMapInsert: the call is lost.
HashMapInsertLost(m, k, v) == m

\* A mutation of HashMapInsert: the map is rebuilt with the new entry only.
HashMapInsertFresh(m, k, v) == [x \in {k} |-> v]

\* HashMap::insert(k, v): stores v under k, replacing the value of a key that
\* is already present.
HashMapInsert(m, k, v) ==
    [x \in (DOMAIN m) \cup {k} |-> IF x = k THEN v ELSE m[x]]

\* A mutation of HashMapLen: off by one.
HashMapLenPlusOne(m) == Cardinality(DOMAIN m) + 1

\* HashMap::len()
HashMapLen(m) == Cardinality(DOMAIN m)

(***************************************************************************)
(* serde_json text of a Transaction.  Text is a sequence of characters; a  *)
(* JSON object is the sequence of its members in the order the derive      *)
(* writes them, each value a string or a number token.                     *)
(***************************************************************************)
Digits == <<"0", "1", "2", "3", "4", "5", "6", "7", "8", "9">>

Digit(d) == Digits[d + 1]

IsDigit(c) == \E d \in 0..9 : Digits[d + 1] = c

DigitVal(c) == CHOOSE d \in 0..9 : Digits[d + 1] = c

RECURSIVE FormatNat(_)
FormatNat(n) ==
    IF n < 10 THEN <<Digit(n)>>
    ELSE FormatNat(n \div 10) \o <<Digit(n % 10)>>

RECURSIVE ParseNat(_)
ParseNat(s) ==
    IF Len(s) = 0 THEN 0
    ELSE ParseNat(SubSeq(s, 1, Len(s) - 1)) * 10 + DigitVal(s[Len(s)])

AllDigits(s) == Len(s) > 0 /\ \A i \in 1..Len(s) : IsDigit(s[i])

\* An f64 as serde_json writes it: the shortest decimal text that reads back
\* as the same value, always with a fraction (50.0, 100.5, 75.25).
FormatF64(h) ==
    FormatNat(h \div 100) \o <<".">> \o
        (IF h % 10 = 0 THEN <<Digit((h % 100) \div 10)>>
         ELSE <<Digit((h % 100) \div 10), Digit(h % 10)>>)

DotAt(s) == {i \in 1..Len(s) : s[i] = "."}

\* Whether a number token is one the model reads: digits, a point, one or
\* two digits.
IsF64Text(s) ==
    /\ Cardinality(DotAt(s)) = 1
    /\ LET d == CHOOSE i \in DotAt(s) : TRUE
       IN /\ AllDigits(SubSeq(s, 1, d - 1))
          /\ AllDigits(SubSeq(s, d + 1, Len(s)))
          /\ Len(s) - d \in {1, 2}

\* The f64 a number token reads as.
ParseF64(s) ==
    LET d == CHOOSE i \in DotAt(s) : TRUE
        frac == SubSeq(s, d + 1, Len(s))
    IN ParseNat(SubSeq(s, 1, d - 1)) * 100
         + (IF Len(frac) = 1 THEN 10 * ParseNat(frac) ELSE ParseNat(frac))

\* Uuid as its text (the model's uuids are small numbers).
FormatUuid(u) == <<"u", "-">> \o FormatNat(u)

IsUuidText(s) ==
    Len(s) > 2 /\ s[1] = "u" /\ s[2] = "-" /\ AllDigits(SubSeq(s, 3, Len(s)))

ParseUuid(s) == ParseNat(SubSeq(s, 3, Len(s)))

\* DateTime<Utc> as RFC 3339 text: the instant followed by the zone Z.
FormatDateTime(t) == FormatNat(t) \o <<"Z">>

IsDateTimeText(s) ==
    Len(s) > 1 /\ s[Len(s)] = "Z" /\ AllDigits(SubSeq(s, 1, Len(s) - 1))

ParseDateTime(s) == ParseNat(SubSeq(s, 1, Len(s) - 1))

\* A mutation of SerializeStatus: every variant is written as the first one.
SerializeStatusFirst(st) == "Pending"

\* A unit variant of TransactionStatus is written as its name.
SerializeStatus(st) ==
    CASE st = "Pending" -> "Pending"
      [] st = "Completed" -> "Completed"
      [] st = "Failed" -> "Failed"

JsonString(s) == [kind |-> "string", text |-> s]
JsonNumber(s) == [kind |-> "number", text |-> s]

\* serde_json::to_string(&tx): the members in the order of the struct's fields.
ToJson(t) ==
    << [key |-> "id", value |-> JsonString(FormatUuid(t.id))],
       [key |-> "amount", value |-> JsonNumber(FormatF64(t.amount))],
       [key |-> "currency", value |-> JsonString(<<t.currency>>)],
       [key |-> "timestamp", value |-> JsonString(FormatDateTime(t.timestamp))],
       [key |-> "status", value |-> JsonString(<<SerializeStatus(t.status)>>)] >>

FieldNames == {"id", "amount", "currency", "timestamp", "status"}

Member(j, k) == j[CHOOSE i \in 1..Len(j) : j[i].key = k].value

DeError == [error |-> TRUE]

\* The derived Deserialize of Transaction: every field once, in any order,
\* each of its type, the status one of the variant names.
FromJson(j) ==
    IF /\ Len(j) = Cardinality(FieldNames)
       /\ \A k \in FieldNames : Cardinality({i \in 1..Len(j) : j[i].key = k}) = 1
       /\ Member(j, "id").kind = "string" /\ IsUuidText(Member(j, "id").text)
       /\ Member(j, "amount").kind = "number"
       /\ IsF64Text(Member(j, "amount").text)
       /\ Member(j, "currency").kind = "string"
       /\ Len(Member(j, "currency").text) = 1
       /\ Member(j, "timestamp").kind = "string"
       /\ IsDateTimeText(Member(j, "timestamp").text)
       /\ Member(j, "status").kind = "string"
       /\ Len(Member(j, "status").text) = 1
       /\ Member(j, "status").text[1] \in TransactionStatus
    THEN [id |-> ParseUuid(Member(j, "id").text),
          amount |-> ParseF64(Member(j, "amount").text),
          currency |-> Member(j, "currency").text[1],
          timestamp |-> ParseDateTime(Member(j, "timestamp").text),
          status |-> Member(j, "status").text[1]]
    ELSE DeError

(***************************************************************************)
(* main(), one action per statement.                                       *)
(***************************************************************************)
InitMain ==
    /\ pc = "start"
    /\ clock \in Times
    /\ transactions = HashMapNew
    /\ tx = NoTx
    /\ logged = << >>
    /\ result = "running"
    /\ json = NoJson
    /\ decoded = NoTx

\* tracing_subscriber::fmt::init(); info!("Starting financial processor")
MainStart ==
    /\ pc = "start"
    /\ pc' = "new_map"
    /\ logged' = Append(logged, "Starting financial processor")
    /\ UNCHANGED <<clock, transactions, tx, result, json, decoded>>

\* let mut transactions = HashMap::new();
MainNewMap ==
    /\ pc = "new_map"
    /\ pc' = "build"
    /\ transactions' = HashMapNew
    /\ UNCHANGED <<clock, tx, logged, result, json, decoded>>

\* let tx = Transaction { id: Uuid::new_v4(), amount: 100.50, ... };
MainBuild ==
    /\ pc = "build"
    /\ \E id \in Uuids : tx' = NewTransaction(id, MainSite, clock)
    /\ pc' = "insert"
    /\ UNCHANGED <<clock, transactions, logged, result, json, decoded>>

\* transactions.insert(tx.id, tx);  tx is moved into the map.
MainInsert ==
    /\ pc = "insert"
    /\ transactions' = HashMapInsert(transactions, tx.id, tx)
    /\ tx' = NoTx
    /\ pc' = "sleep"
    /\ UNCHANGED <<clock, logged, result, json, decoded>>

\* sleep(Duration::from_millis(100)).await: the timer fires.
MainSleep ==
    /\ pc = "sleep"
    /\ pc' = "report"
    /\ UNCHANGED <<clock, transactions, tx, logged, result, json, decoded>>

\* info!("Processed {} transactions", transactions.len());
MainReport ==
    /\ pc = "report"
    /\ logged' = Append(logged, HashMapLen(transactions))
    /\ pc' = "return"
    /\ UNCHANGED <<clock, transactions, tx, result, json, decoded>>

\* Ok(())
MainReturn ==
    /\ pc = "return"
    /\ pc' = "done"
    /\ result' = "Ok"
    /\ UNCHANGED <<clock, transactions, tx, logged, json, decoded>>

\* Time passes while the process runs.
Tick ==
    /\ pc \notin {"done", "serde"}
    /\ clock < MaxTime
    /\ clock' = clock + 1
    /\ UNCHANGED <<pc, transactions, tx, logged, result, json, decoded>>

MainStep ==
    \/ MainStart
    \/ MainNewMap
    \/ MainBuild
    \/ MainInsert
    \/ MainSleep
    \/ MainReport
    \/ MainReturn

NextMain ==
    \/ MainStart
    \/ MainNewMap
    \/ MainBuild
    \/ MainInsert
    \/ MainSleep
    \/ MainReport
    \/ MainReturn
    \/ Tick

SpecMain == InitMain /\ [][NextMain]_vars /\ WF_vars(MainStep)

(***************************************************************************)
(* The operations on the map, in any order.                                *)
(***************************************************************************)
InitOps ==
    /\ pc = "ops"
    /\ clock \in Times
    /\ transactions = HashMapNew
    /\ tx = NoTx
    /\ logged = << >>
    /\ result = "running"
    /\ json = NoJson
    /\ decoded = NoTx

\* The struct literal: a random id, the site's amount, currency and status,
\* the current time.
Construct ==
    /\ pc = "ops"
    /\ \E id \in Uuids, site \in Sites : tx' = NewTransaction(id, site, clock)
    /\ UNCHANGED <<pc, clock, transactions, logged, result, json, decoded>>

\* transactions.insert(tx.id, tx)
Insert ==
    /\ pc = "ops"
    /\ tx # NoTx
    /\ transactions' = HashMapInsert(transactions, tx.id, tx)
    /\ tx' = NoTx
    /\ UNCHANGED <<pc, clock, logged, result, json, decoded>>

\* transactions.len(), reported
Count ==
    /\ pc = "ops"
    /\ logged' = <<HashMapLen(transactions)>>
    /\ UNCHANGED <<pc, clock, transactions, tx, result, json, decoded>>

NextOps ==
    \/ Construct
    \/ Insert
    \/ Count
    \/ Tick

SpecOps == InitOps /\ [][NextOps]_vars

(***************************************************************************)
(* Serialization and reading back.                                         *)
(***************************************************************************)
InitSerde ==
    /\ pc = "serde"
    /\ clock \in Times
    /\ transactions = HashMapNew
    /\ tx \in Transaction
    /\ tx.timestamp = clock
    /\ logged = << >>
    /\ result = "running"
    /\ json = NoJson
    /\ decoded = NoTx

\* let json = serde_json::to_string(&tx).unwrap();
Serialize ==
    /\ pc = "serde"
    /\ json = NoJson
    /\ json' = ToJson(tx)
    /\ UNCHANGED <<pc, clock, transactions, tx, logged, result, decoded>>

\* serde_json::from_str::<Transaction>(&json)
Deserialize ==
    /\ pc = "serde"
    /\ json # NoJson
    /\ decoded = NoTx
    /\ decoded' = FromJson(json)
    /\ UNCHANGED <<pc, clock, transactions, tx, logged, result, json>>

NextSerde ==
    \/ Serialize
    \/ Deserialize

SpecSerde == InitSerde /\ [][NextSerde]_vars

(***************************************************************************)
(* Properties.                                                             *)
(***************************************************************************)
NumRecords(m) == Cardinality(DOMAIN m)

Terminal == {"Completed", "Failed"}

\* C1: once the record stored under an id has status Completed or Failed, the
\* record under that id keeps that status in every later state, whatever
\* operation is applied.
C1_TerminalStays ==
    [][\A id \in DOMAIN transactions :
          transactions[id].status \in Terminal =>
              /\ id \in DOMAIN transactions'
              /\ transactions'[id].status = transactions[id].status]_vars

\* C2: an insert of a transaction whose id is already a key leaves the map,
\* and with it the stored record and the count, as they were.
C2_DuplicateRejected ==
    [][(Insert /\ tx.id \in DOMAIN transactions) =>
          transactions' = transactions]_vars

C5_OnlyPendingLeaves ==
    [][\A id \in (DOMAIN transactions) \cap (DOMAIN transactions') :
          transactions'[id].status # transactions[id].status =>
              /\ transactions[id].status = "Pending"
              /\ transactions'[id].status \in Terminal]_vars

\* C7: the id, amount, currency and timestamp of the record stored under an
\* id are the same after every step as before it.
C7_FieldsImmutable ==
    [][\A id \in DOMAIN transactions :
          /\ id \in DOMAIN transactions'
          /\ transactions'[id].id = transactions[id].id
          /\ transactions'[id].amount = transactions[id].amount
          /\ transactions'[id].currency = transactions[id].currency
          /\ transactions'[id].timestamp = transactions[id].timestamp]_vars

\* C8: no step removes a key; the count never decreases, and it changes only
\* in an insert step, by exactly one.
C8_NeverRemoved ==
    [][/\ DOMAIN transactions \subseteq DOMAIN transactions'
       /\ NumRecords(transactions') >= NumRecords(transactions)
       /\ (NumRecords(transactions') # NumRecords(transactions) =>
              /\ Insert
              /\ NumRecords(transactions') = NumRecords(transactions) + 1)]_vars

\* C8 witness: every id has been inserted, a further transaction has been
\* built, and the count reported is the number of ids.
C8_Witness ==
    /\ pc = "ops"
    /\ tx # NoTx
    /\ DOMAIN transactions = Uuids
    /\ logged = <<NumUuids>>

C10_MainTerminatesOk ==
    <>[](/\ pc = "done"
         /\ result = "Ok"
         /\ Len(logged) = 2
         /\ logged[2] = 1
         /\ NumRecords(transactions) = 1
         /\ \A id \in DOMAIN transactions :
               /\ transactions[id].status = "Pending"
               /\ transactions[id].amount = 10050
               /\ transactions[id].currency = "USD")

\* C10 witness: main has returned Ok after reporting one transaction.
C10_Witness ==
    /\ pc = "done"
    /\ result = "Ok"
    /\ Len(logged) = 2
    /\ logged[2] = 1
    /\ NumRecords(transactions) = 1

====
